---- MODULE Spec2Model ----
(***************************************************************************)
(* Model of the Simple Books API (src/app.py): a FastAPI service with a    *)
(* read-only book catalog, a file-persisted order store and a              *)
(* file-persisted registry of API clients.                                 *)
(*                                                                         *)
(* A process is one Python interpreter running the application.  Inside a  *)
(* process the handlers are coroutines: a handler runs without             *)
(* interruption from one await to the next, and another request of the     *)
(* same process may run at every await (call_next in the middleware,       *)
(* request.json() in the handlers).  Processes sharing the db/ directory   *)
(* interleave at every file operation.                                     *)
(*                                                                         *)
(* Python dicts keep insertion order, so a dict is modelled as a sequence  *)
(* of records whose key field is unique.  A JSON file is modelled by the   *)
(* list it holds.                                                          *)
(***************************************************************************)
EXTENDS Integers, Sequences, FiniteSets

\* ----------------------------------------------------------------- bounds
\* Processes sharing the db/ files in the multi-process specification.
NumProcs == 2
\* Requests one process may have in flight at the same time.
NumSlots == 2
\* uuid.uuid4() values: a value is <<head, serial>>.  head stands for its
\* first 20 characters.  uuid4 never returns a value twice, so the values are
\* named by the order in which they are handed out: serial is the number of
\* the call, and two values are equal iff their serials are.
NumHeads == 2
\* Calls of uuid4 in one behaviour.
MaxUuids == 3

Procs == 1 .. NumProcs
Slots == 1 .. NumSlots
Heads == 1 .. NumHeads
\* str(uuid.uuid4()): equal strings iff equal serials.
UuidStr(u) == u[2]
\* str(uuid.uuid4())[:20]
First20(u) == u[1]
Tokens == 1 .. MaxUuids

\* ----------------------------------------------------------------- inputs
\* "" stands for a field that is missing or empty (both are falsy in Python).
Emails == {"", "a@x", "b@x"}
Names == {"", "Ann", "Bob"}
\* The smaller sets of the specifications that are not about registration.
OneEmail == {"", "a@x"}
OneName == {"", "Ann"}
\* 0 stands for a bookId that is missing or falsy; 9 is in no catalog.
BookIdInputs == {0, 1, 2, 9}
\* An Authorization header is the sequence of its space-separated words;
\* <<>> is a missing (or empty) header.
Schemes == {"Bearer", "Basic"}
Headers == {<<>>} \cup {<<s, t>> : s \in Schemes, t \in Tokens}
\* Path parameter order_id.
OrderIds == Heads

\* The books of db/products.json, as read by the middleware.
\* A book has the four basic fields and may have more: author stands for them.
Catalog ==
  << [id |-> 1, name |-> "The Russian", type |-> "fiction", available |-> TRUE,
      author |-> "James Patterson"],
     [id |-> 2, name |-> "Just as I Am", type |-> "non-fiction", available |-> FALSE,
      author |-> "Cicely Tyson"] >>

\* A query parameter is <<>> when it is not given and <<value>> when it is.
\* type: "" is the parameter given with no value, "poetry" is not a type.
TypeInputs == {<<>>, <<"">>, <<"fiction">>, <<"non-fiction">>, <<"poetry">>}
\* limit: FastAPI hands the handler an integer.
LimitInputs == {<<>>} \cup {<<n>> : n \in {-1, 0, 1, 2, 20, 21}}
\* Path parameter book_id.
BookIdPaths == {1, 2, 9}

\* ------------------------------------------------------------ Python dicts
DictKeys(d, kf) == {d[i][kf] : i \in 1 .. Len(d)}

DictHas(d, kf, key) == key \in DictKeys(d, kf)

DictGet(d, kf, key) == d[CHOOSE i \in 1 .. Len(d) : d[i][kf] = key]

\* d[key] = rec: replaces the value in place, or appends a new key.
DictSet(d, kf, rec) ==
  IF DictHas(d, kf, rec[kf])
    THEN [i \in 1 .. Len(d) |-> IF d[i][kf] = rec[kf] THEN rec ELSE d[i]]
    ELSE Append(d, rec)

\* Mutant: the key stays in the dict.
DictDel_Kept(d, kf, key) == d

\* del d[key]
DictDel(d, kf, key) == SelectSeq(d, LAMBDA x : x[kf] # key)

\* {x[kf]: x for x in list}
RECURSIVE DictFromList(_, _)
DictFromList(list, kf) ==
  IF list = <<>> THEN <<>>
  ELSE DictSet(DictFromList(SubSeq(list, 1, Len(list) - 1), kf), kf, list[Len(list)])

\* ---------------------------------------------------------------- storage
\* load_api_clients: the registry as a dict keyed by token.
load_api_clients(file) == DictFromList(file, "token")

\* save_api_clients: list(clients_dict.values())
save_api_clients(clients_dict) == clients_dict

\* The middleware's load of orders.json as a dict keyed by id.
LoadOrders(file) == DictFromList(file, "id")

\* save_orders: list(orders_dict.values())
save_orders(orders_dict) == orders_dict

\* ------------------------------------------------------------------ state
VARIABLES
  clientsFile,   \* db/api_clients.json: a list of client records
  ordersFile,    \* db/orders.json: a list of order records
  api_clients,   \* per process: the module-level registry loaded at import
  orders,        \* per process: the global dict of orders
  slot,          \* per process and request slot: the coroutine's pc and locals
  issued,        \* the number of uuid4 values handed out so far
  resp           \* the response of the request that completed last

vars == <<clientsFile, ordersFile, api_clients, orders, slot, issued, resp>>

Idle == [pc |-> "idle"]

NoOrder == [id |-> 0, bookId |-> 0, customerName |-> ""]

\* A response, with the request it answers: the Authorization header, the
\* order_id of the path (0 when the route has none) and the JSON body.
NoResp == [op |-> "none", status |-> 0, proc |-> 0, hdr |-> <<>>, id |-> 0,
           body |-> <<>>, out |-> <<>>]

Response(p, op, status, hdr, id, body, out) ==
  [op |-> op, status |-> status, proc |-> p, hdr |-> hdr, id |-> id,
   body |-> body, out |-> out]

TheProcs == DOMAIN orders

SlotsOf(p) == DOMAIN slot[p]

\* A process between two awaits runs one coroutine only: while a
\* registration is between its load and its save, nothing else of that
\* process runs.
Busy(p) == \E r \in SlotsOf(p) : slot[p][r].pc = "reg_save"

At(p, r, pc) == slot[p][r].pc = pc /\ ~Busy(p)

SetSlot(p, r, v) == [slot EXCEPT ![p][r] = v]

\* uuid.uuid4(): the values the next call may return.
uuid4 == IF issued < MaxUuids THEN {<<h, issued + 1>> : h \in Heads} ELSE {}

InitOf(procs, slots) ==
  /\ clientsFile = <<>>
  /\ ordersFile = <<>>
  /\ api_clients = [p \in procs |-> load_api_clients(<<>>)]
  /\ orders = [p \in procs |-> <<>>]
  /\ slot = [p \in procs |-> [r \in slots |-> Idle]]
  /\ issued = 0
  /\ resp = NoResp

\* ------------------------------------------------------------- references
\* An update handler keeps a reference to an order object across its await.
\* ref.att: the object is still the one the process's orders dict holds
\* under ref.id.  Otherwise the object is detached: ref.val is its content
\* and ref.tag tells apart the detached objects of one id.
UsedTags(p, i) ==
  {slot[p][r].ref.tag : r \in {s \in SlotsOf(p) : /\ slot[p][s].pc = "upd_body"
                                             /\ ~slot[p][s].ref.att
                                             /\ slot[p][s].ref.id = i}}

NewTag(p, i) == CHOOSE t \in 1 .. NumSlots :
                  t \notin UsedTags(p, i) /\ \A u \in 1 .. (t - 1) : u \in UsedTags(p, i)

\* The slots of p after the objects stored under the ids in `ids` have left
\* the orders dict of p.
Detached(p, ids) ==
  [r \in SlotsOf(p) |->
     LET s == slot[p][r] IN
     IF s.pc = "upd_body" /\ s.ref.att /\ s.ref.id \in ids
       THEN [s EXCEPT !.ref = [id |-> s.ref.id, att |-> FALSE,
                               tag |-> NewTag(p, s.ref.id),
                               val |-> DictGet(orders[p], "id", s.ref.id)]]
       ELSE s]

\* ------------------------------------------------------------- middleware
\* load_data_middleware up to call_next: rebinds the globals books and
\* orders to freshly loaded objects.
load_data_middleware(p, r) ==
  /\ At(p, r, "idle")
  /\ orders' = [orders EXCEPT ![p] = LoadOrders(ordersFile)]
  /\ slot' = [slot EXCEPT ![p] =
                [Detached(p, DictKeys(orders[p], "id")) EXCEPT ![r] = [pc |-> "handler"]]]
  /\ UNCHANGED <<clientsFile, ordersFile, api_clients, issued, resp>>

\* ----------------------------------------------------------------- status
get_status(p, r) ==
  /\ At(p, r, "handler")
  /\ slot' = SetSlot(p, r, Idle)
  /\ resp' = Response(p, "status", 200, <<>>, 0, <<>>, <<>>)
  /\ UNCHANGED <<clientsFile, ordersFile, api_clients, orders, issued>>

\* ------------------------------------------------------------------ books
allowed_types == {"fiction", "non-fiction"}

basic_fields == {"id", "name", "type", "available"}

\* `if type`: the parameter is given and is not the empty string.
TypeTruthy(type) == type # <<>> /\ type[1] # ""

\* `if limit`: the parameter is given and is not 0.
LimitTruthy(limit) == limit # <<>> /\ limit[1] # 0

\* filtered[:limit], for a limit that passed the range check.
SliceTo(list, limit) == SubSeq(list, 1, IF limit < Len(list) THEN limit ELSE Len(list))

\* The status and the content get_books answers with.
get_books_response(type, limit) ==
  IF TypeTruthy(type) /\ type[1] \notin allowed_types
    THEN <<400, "Invalid value for query parameter 'type'. Must be one of: fiction, non-fiction.">>
  ELSE IF limit # <<>> /\ ~(1 <= limit[1] /\ limit[1] <= 20)
    THEN <<400, "Invalid value for query parameter 'limit'. Must be between 1 and 20.">>
  ELSE LET byType == IF TypeTruthy(type)
                       THEN SelectSeq(Catalog, LAMBDA b : b.type = type[1])
                       ELSE Catalog
           filtered == IF LimitTruthy(limit) THEN SliceTo(byType, limit[1]) ELSE byType
       IN <<200, [i \in 1 .. Len(filtered) |->
                   [k \in basic_fields |-> filtered[i][k]]]>>

get_books(p, r, type, limit) ==
  /\ At(p, r, "handler")
  /\ slot' = SetSlot(p, r, Idle)
  /\ LET res == get_books_response(type, limit) IN
     resp' = Response(p, "books", res[1], <<>>, 0, [type |-> type, limit |-> limit],
                      res[2])
  /\ UNCHANGED <<clientsFile, ordersFile, api_clients, orders, issued>>

get_book(p, r, book_id) ==
  /\ At(p, r, "handler")
  /\ slot' = SetSlot(p, r, Idle)
  /\ resp' = IF \E i \in 1 .. Len(Catalog) : Catalog[i].id = book_id
               THEN Response(p, "book", 200, <<>>, book_id, <<>>,
                             Catalog[CHOOSE i \in 1 .. Len(Catalog) :
                                       /\ Catalog[i].id = book_id
                                       /\ \A j \in 1 .. (i - 1) : Catalog[j].id # book_id])
               ELSE Response(p, "book", 404, <<>>, book_id, <<>>, "Book not found")
  /\ UNCHANGED <<clientsFile, ordersFile, api_clients, orders, issued>>

\* ----------------------------------------------------------- registration
\* A request body: json is FALSE when request.json() raises.
RegisterBodies(emails, names) ==
  [json : {TRUE}, clientEmail : emails, clientName : names]
    \cup {[json |-> FALSE, clientEmail |-> "", clientName |-> ""]}

\* register_client up to `await request.json()`.
register_client(p, r) ==
  /\ At(p, r, "handler")
  /\ slot' = SetSlot(p, r, [pc |-> "reg_body"])
  /\ UNCHANGED <<clientsFile, ordersFile, api_clients, orders, issued, resp>>

\* Mutant: the duplicate check never finds the email.
EmailTaken_Skipped(clients, client_email) == FALSE

\* Mutant: the duplicate check compares the first client only.
EmailTaken_FirstOnly(clients, client_email) ==
  Len(clients) > 0 /\ clients[1].clientEmail = client_email

\* for client in clients.values(): if client["clientEmail"] == client_email
EmailTaken(clients, client_email) ==
  \E i \in 1 .. Len(clients) : clients[i].clientEmail = client_email

\* register_client from the body to the duplicate check on the reloaded
\* registry.
register_client_check(p, r, data) ==
  /\ At(p, r, "reg_body")
  /\ IF ~data.json
       THEN /\ slot' = SetSlot(p, r, Idle)
            /\ resp' = Response(p, "register", 500, <<>>, 0, data, <<>>)
       ELSE IF data.clientEmail = "" \/ data.clientName = ""
       THEN /\ slot' = SetSlot(p, r, Idle)
            /\ resp' = Response(p, "register", 400, <<>>, 0, data, <<>>)
       ELSE LET clients == load_api_clients(clientsFile) IN
            IF EmailTaken(clients, data.clientEmail)
              THEN /\ slot' = SetSlot(p, r, Idle)
                   /\ resp' = Response(p, "register", 409, <<>>, 0, data, <<>>)
              ELSE /\ slot' = SetSlot(p, r, [pc |-> "reg_save", clients |-> clients,
                                             data |-> data])
                   /\ resp' = resp
  /\ UNCHANGED <<clientsFile, ordersFile, api_clients, orders, issued>>

\* Mutant: the new client is added to the registry as it is in the file at
\* the time of the save.
register_client_save_Reloaded(p, r) ==
  /\ slot[p][r].pc = "reg_save"
  /\ \E u \in uuid4 :
       LET s == slot[p][r]
           token == UuidStr(u)
           client_obj == [token |-> token, clientEmail |-> s.data.clientEmail,
                          clientName |-> s.data.clientName]
           clients == DictSet(load_api_clients(clientsFile), "token", client_obj)
       IN /\ clientsFile' = save_api_clients(clients)
          /\ resp' = Response(p, "register", 200, <<>>, 0, s.data,
                              [accessToken |-> token])
  /\ issued' = issued + 1
  /\ slot' = SetSlot(p, r, Idle)
  /\ UNCHANGED <<ordersFile, api_clients, orders>>

\* register_client from uuid4 to the return: the new client is added to
\* the registry loaded before, which is written back.
register_client_save(p, r) ==
  /\ slot[p][r].pc = "reg_save"
  /\ \E u \in uuid4 :
       LET s == slot[p][r]
           token == UuidStr(u)
           client_obj == [token |-> token, clientEmail |-> s.data.clientEmail,
                          clientName |-> s.data.clientName]
           clients == DictSet(s.clients, "token", client_obj)
       IN /\ clientsFile' = save_api_clients(clients)
          /\ resp' = Response(p, "register", 200, <<>>, 0, s.data,
                              [accessToken |-> token])
  /\ issued' = issued + 1
  /\ slot' = SetSlot(p, r, Idle)
  /\ UNCHANGED <<ordersFile, api_clients, orders>>

\* --------------------------------------------------------- authentication
\* authorization.startswith("Bearer ")
StartsWithBearer(authorization) == Len(authorization) >= 2 /\ authorization[1] = "Bearer"

\* authorization.split(" ", 1)[1].strip(), for a header of two words
BearerToken(authorization) == authorization[2]

\* Mutant: the scheme of the header is not looked at.
Unauthorized_AnyScheme(authorization) ==
  IF authorization = <<>>
    THEN TRUE
    ELSE ~DictHas(load_api_clients(clientsFile), "token", BearerToken(authorization))

\* Mutant: the token is looked up in the registry loaded at import.
Unauthorized_Cached(authorization) ==
  IF authorization = <<>> \/ ~StartsWithBearer(authorization)
    THEN TRUE
    ELSE \A p \in TheProcs :
           ~DictHas(api_clients[p], "token", BearerToken(authorization))

\* The first lines of every order handler: TRUE when they raise the 401.
Unauthorized(authorization) ==
  IF authorization = <<>> \/ ~StartsWithBearer(authorization)
    THEN TRUE
    ELSE LET clients == load_api_clients(clientsFile) IN
         ~DictHas(clients, "token", BearerToken(authorization))

\* ----------------------------------------------------------------- orders
SubmitBodies ==
  [json : {TRUE}, bookId : BookIdInputs, customerName : Names]
    \cup {[json |-> FALSE, bookId |-> 0, customerName |-> ""]}

UpdateBodies ==
  [json : {TRUE}, customerName : Names] \cup {[json |-> FALSE, customerName |-> ""]}

\* next((b for b in books if b["id"] == book_id), None)
HasBook(book_id) == \E i \in 1 .. Len(Catalog) : Catalog[i].id = book_id

FindBook(book_id) ==
  Catalog[CHOOSE i \in 1 .. Len(Catalog) :
            Catalog[i].id = book_id /\ \A j \in 1 .. (i - 1) : Catalog[j].id # book_id]

\* submit_order up to `await request.json()`.
submit_order(p, r, authorization) ==
  /\ At(p, r, "handler")
  /\ IF Unauthorized(authorization)
       THEN /\ slot' = SetSlot(p, r, Idle)
            /\ resp' = Response(p, "submit", 401, authorization, 0, <<>>, <<>>)
       ELSE /\ slot' = SetSlot(p, r, [pc |-> "sub_body", hdr |-> authorization])
            /\ resp' = resp
  /\ UNCHANGED <<clientsFile, ordersFile, api_clients, orders, issued>>

\* Mutant: the book is not looked up in the catalog.
SubmitCheck_NoLookup(data) ==
  IF ~data.json THEN <<400, "Invalid or missing bookId.">>
  ELSE IF data.bookId = 0 THEN <<400, "Invalid or missing bookId.">>
  ELSE IF data.customerName = "" THEN <<400, "Invalid or missing customerName.">>
  ELSE <<201, "">>

\* Mutant: the available flag of the book is not looked at.
SubmitCheck_NoStock(data) ==
  IF ~data.json THEN <<400, "Invalid or missing bookId.">>
  ELSE IF data.bookId = 0 THEN <<400, "Invalid or missing bookId.">>
  ELSE IF data.customerName = "" THEN <<400, "Invalid or missing customerName.">>
  ELSE IF ~HasBook(data.bookId) THEN <<404, "Book not found.">>
  ELSE <<201, "">>

\* The status and the error of submit_order's checks of the body; 201 when
\* they all pass.
SubmitCheck(data) ==
  IF ~data.json THEN <<400, "Invalid or missing bookId.">>
  ELSE IF data.bookId = 0 THEN <<400, "Invalid or missing bookId.">>
  ELSE IF data.customerName = "" THEN <<400, "Invalid or missing customerName.">>
  ELSE IF ~HasBook(data.bookId) THEN <<404, "Book not found.">>
  ELSE IF ~FindBook(data.bookId).available
    THEN <<404, "This Book is not in stock.Try ordering later.">>
  ELSE <<201, "">>

\* submit_order from the body to the return.
submit_order_body(p, r, data) ==
  /\ At(p, r, "sub_body")
  /\ LET hdr == slot[p][r].hdr
         chk == SubmitCheck(data)
     IN IF chk[1] # 201
          THEN /\ slot' = SetSlot(p, r, Idle)
               /\ resp' = Response(p, "submit", chk[1], hdr, 0, data, chk[2])
               /\ UNCHANGED <<ordersFile, orders, issued>>
          ELSE \E u \in uuid4 :
               LET order_id == First20(u)
                   order == [id |-> order_id, bookId |-> data.bookId,
                             customerName |-> data.customerName]
                   after == DictSet(orders[p], "id", order)
               IN /\ orders' = [orders EXCEPT ![p] = after]
                  /\ ordersFile' = save_orders(after)
                  /\ slot' = [slot EXCEPT ![p] =
                                [Detached(p, {order_id}) EXCEPT ![r] = Idle]]
                  /\ resp' = Response(p, "submit", 201, hdr, order_id, data,
                                      [created |-> TRUE, orderId |-> order_id])
                  /\ issued' = issued + 1
  /\ UNCHANGED <<clientsFile, api_clients>>

get_orders(p, r, authorization) ==
  /\ At(p, r, "handler")
  /\ slot' = SetSlot(p, r, Idle)
  /\ resp' = IF Unauthorized(authorization)
               THEN Response(p, "list", 401, authorization, 0, <<>>, <<>>)
               ELSE Response(p, "list", 200, authorization, 0, <<>>, orders[p])
  /\ UNCHANGED <<clientsFile, ordersFile, api_clients, orders, issued>>

\* Mutant: only the client registered first may read an order.
get_order_FirstClient(p, r, authorization, order_id) ==
  /\ At(p, r, "handler")
  /\ slot' = SetSlot(p, r, Idle)
  /\ resp' = IF Unauthorized(authorization)
               THEN Response(p, "get", 401, authorization, order_id, <<>>, <<>>)
             ELSE IF \/ ~DictHas(orders[p], "id", order_id)
                     \/ BearerToken(authorization) # clientsFile[1].token
               THEN Response(p, "get", 404, authorization, order_id, <<>>, "Order not found.")
             ELSE Response(p, "get", 200, authorization, order_id, <<>>,
                           DictGet(orders[p], "id", order_id))
  /\ UNCHANGED <<clientsFile, ordersFile, api_clients, orders, issued>>

get_order(p, r, authorization, order_id) ==
  /\ At(p, r, "handler")
  /\ slot' = SetSlot(p, r, Idle)
  /\ resp' = IF Unauthorized(authorization)
               THEN Response(p, "get", 401, authorization, order_id, <<>>, <<>>)
             ELSE IF ~DictHas(orders[p], "id", order_id)
               THEN Response(p, "get", 404, authorization, order_id, <<>>, "Order not found.")
             ELSE Response(p, "get", 200, authorization, order_id, <<>>,
                           DictGet(orders[p], "id", order_id))
  /\ UNCHANGED <<clientsFile, ordersFile, api_clients, orders, issued>>

\* update_order up to `await request.json()`: the handler keeps the order
\* object it looked up.
update_order(p, r, authorization, order_id) ==
  /\ At(p, r, "handler")
  /\ IF Unauthorized(authorization)
       THEN /\ slot' = SetSlot(p, r, Idle)
            /\ resp' = Response(p, "update", 401, authorization, order_id, <<>>, <<>>)
       ELSE IF ~DictHas(orders[p], "id", order_id)
       THEN /\ slot' = SetSlot(p, r, Idle)
            /\ resp' = Response(p, "update", 404, authorization, order_id, <<>>,
                                "Order not found.")
       ELSE /\ slot' = SetSlot(p, r, [pc |-> "upd_body", hdr |-> authorization,
                                      ref |-> [id |-> order_id, att |-> TRUE,
                                               tag |-> 0, val |-> NoOrder]])
            /\ resp' = resp
  /\ UNCHANGED <<clientsFile, ordersFile, api_clients, orders, issued>>

\* Mutant: the customerName of the body is assigned whatever it is.
customer_name_given_Always(customer_name) == TRUE

\* if customer_name:
customer_name_given(customer_name) == customer_name # ""

\* The content of the object a reference points to.
Deref(p, ref) == IF ref.att THEN DictGet(orders[p], "id", ref.id) ELSE ref.val

SameObject(a, b) == a.id = b.id /\ a.att = b.att /\ a.tag = b.tag

\* update_order from the body to the return: order["customerName"] is
\* assigned on the object looked up before the await, and the orders dict
\* the global names now is saved.
update_order_body(p, r, data) ==
  /\ At(p, r, "upd_body")
  /\ LET hdr == slot[p][r].hdr
         ref == slot[p][r].ref
         order == Deref(p, ref)
         changed == [order EXCEPT !.customerName = data.customerName]
     IN IF ~data.json
          THEN /\ slot' = SetSlot(p, r, Idle)
               /\ resp' = Response(p, "update", 500, hdr, ref.id, data, <<>>)
               /\ UNCHANGED <<ordersFile, orders>>
        ELSE IF ~customer_name_given(data.customerName)
          THEN /\ slot' = SetSlot(p, r, Idle)
               /\ resp' = Response(p, "update", 200, hdr, ref.id, data, order)
               /\ UNCHANGED <<ordersFile, orders>>
        ELSE /\ orders' = IF ref.att
                            THEN [orders EXCEPT ![p] = DictSet(orders[p], "id", changed)]
                            ELSE orders
             /\ ordersFile' = save_orders(orders'[p])
             /\ slot' = [slot EXCEPT ![p] =
                           [s \in SlotsOf(p) |->
                              IF s = r THEN Idle
                              ELSE IF /\ slot[p][s].pc = "upd_body"
                                      /\ ~ref.att
                                      /\ SameObject(slot[p][s].ref, ref)
                                THEN [slot[p][s] EXCEPT !.ref.val = changed]
                              ELSE slot[p][s]]]
             /\ resp' = Response(p, "update", 200, hdr, ref.id, data, changed)
  /\ UNCHANGED <<clientsFile, api_clients, issued>>

delete_order(p, r, authorization, order_id) ==
  /\ At(p, r, "handler")
  /\ IF Unauthorized(authorization)
       THEN /\ slot' = SetSlot(p, r, Idle)
            /\ resp' = Response(p, "delete", 401, authorization, order_id, <<>>, <<>>)
            /\ UNCHANGED <<ordersFile, orders>>
       ELSE IF ~DictHas(orders[p], "id", order_id)
       THEN /\ slot' = SetSlot(p, r, Idle)
            /\ resp' = Response(p, "delete", 404, authorization, order_id, <<>>,
                                "Order not found.")
            /\ UNCHANGED <<ordersFile, orders>>
       ELSE LET after == DictDel(orders[p], "id", order_id) IN
            /\ orders' = [orders EXCEPT ![p] = after]
            /\ ordersFile' = save_orders(after)
            /\ slot' = [slot EXCEPT ![p] = [Detached(p, {order_id}) EXCEPT ![r] = Idle]]
            /\ resp' = Response(p, "delete", 204, authorization, order_id, <<>>, <<>>)
  /\ UNCHANGED <<clientsFile, api_clients, issued>>

\* --------------------------------------------------------- specifications
\* The status, registration and order endpoints in one process with
\* NumSlots requests in flight; clients register with one email address and
\* one name.
Init == InitOf({1}, Slots)

Next ==
  \/ \E p \in TheProcs : \E r \in SlotsOf(p) :
       load_data_middleware(p, r)
  \/ \E p \in TheProcs : \E r \in SlotsOf(p) :
       get_status(p, r)
  \/ \E p \in TheProcs : \E r \in SlotsOf(p) :
       register_client(p, r)
  \/ \E p \in TheProcs : \E r \in SlotsOf(p) :
       \E data \in RegisterBodies(OneEmail, OneName) :
         register_client_check(p, r, data)
  \/ \E p \in TheProcs : \E r \in SlotsOf(p) :
       register_client_save(p, r)
  \/ \E p \in TheProcs : \E r \in SlotsOf(p) :
       \E authorization \in Headers :
         submit_order(p, r, authorization)
  \/ \E p \in TheProcs : \E r \in SlotsOf(p) :
       \E data \in SubmitBodies : submit_order_body(p, r, data)
  \/ \E p \in TheProcs : \E r \in SlotsOf(p) :
       \E authorization \in Headers :
         get_orders(p, r, authorization)
  \/ \E p \in TheProcs : \E r \in SlotsOf(p) :
       \E authorization \in Headers, order_id \in OrderIds :
         get_order(p, r, authorization, order_id)
  \/ \E p \in TheProcs : \E r \in SlotsOf(p) :
       \E authorization \in Headers, order_id \in OrderIds :
         update_order(p, r, authorization, order_id)
  \/ \E p \in TheProcs : \E r \in SlotsOf(p) :
       \E data \in UpdateBodies : update_order_body(p, r, data)
  \/ \E p \in TheProcs : \E r \in SlotsOf(p) :
       \E authorization \in Headers, order_id \in OrderIds :
         delete_order(p, r, authorization, order_id)

Spec == Init /\ [][Next]_vars

\* Registration alone, with all the email addresses and names, in one process.
NextClients ==
  \/ \E p \in TheProcs : \E r \in SlotsOf(p) :
       load_data_middleware(p, r)
  \/ \E p \in TheProcs : \E r \in SlotsOf(p) :
       register_client(p, r)
  \/ \E p \in TheProcs : \E r \in SlotsOf(p) :
       \E data \in RegisterBodies(Emails, Names) :
         register_client_check(p, r, data)
  \/ \E p \in TheProcs : \E r \in SlotsOf(p) :
       register_client_save(p, r)

SpecClients == Init /\ [][NextClients]_vars

\* Registration in NumProcs processes sharing the files, each handling one
\* request at a time; the clients have one name.
InitMP == InitOf(Procs, {1})

NextClientsMP ==
  \/ \E p \in TheProcs : \E r \in SlotsOf(p) :
       load_data_middleware(p, r)
  \/ \E p \in TheProcs : \E r \in SlotsOf(p) :
       register_client(p, r)
  \/ \E p \in TheProcs : \E r \in SlotsOf(p) :
       \E data \in RegisterBodies(Emails, OneName) :
         register_client_check(p, r, data)
  \/ \E p \in TheProcs : \E r \in SlotsOf(p) :
       register_client_save(p, r)

SpecClientsMP == InitMP /\ [][NextClientsMP]_vars

\* Registration and the order endpoints that write, in NumProcs processes
\* sharing the files, each handling one request at a time.  The requests
\* carry a Bearer header or none, and well-formed bodies.
BearerHeaders == {<<>>} \cup {<<"Bearer", t>> : t \in Tokens}

NextMP ==
  \/ \E p \in TheProcs : \E r \in SlotsOf(p) :
       load_data_middleware(p, r)
  \/ \E p \in TheProcs : \E r \in SlotsOf(p) :
       register_client(p, r)
  \/ \E p \in TheProcs : \E r \in SlotsOf(p) :
       \E data \in RegisterBodies(OneEmail, OneName) :
         register_client_check(p, r, data)
  \/ \E p \in TheProcs : \E r \in SlotsOf(p) :
       register_client_save(p, r)
  \/ \E p \in TheProcs : \E r \in SlotsOf(p) :
       \E authorization \in BearerHeaders :
         submit_order(p, r, authorization)
  \/ \E p \in TheProcs : \E r \in SlotsOf(p) :
       \E data \in {d \in SubmitBodies : d.bookId \in {1, 2} /\ d.customerName # ""} :
         submit_order_body(p, r, data)
  \/ \E p \in TheProcs : \E r \in SlotsOf(p) :
       \E authorization \in BearerHeaders, order_id \in OrderIds :
         update_order(p, r, authorization, order_id)
  \/ \E p \in TheProcs : \E r \in SlotsOf(p) :
       \E data \in {d \in UpdateBodies : d.json} : update_order_body(p, r, data)
  \/ \E p \in TheProcs : \E r \in SlotsOf(p) :
       \E authorization \in BearerHeaders, order_id \in OrderIds :
         delete_order(p, r, authorization, order_id)

SpecMP == InitMP /\ [][NextMP]_vars

\* Registration and the order endpoints in one process that handles one
\* request at a time, with clients of two email addresses.
InitSeq == InitOf({1}, {1})

NextSeq ==
  \/ \E p \in TheProcs : \E r \in SlotsOf(p) :
       load_data_middleware(p, r)
  \/ \E p \in TheProcs : \E r \in SlotsOf(p) :
       register_client(p, r)
  \/ \E p \in TheProcs : \E r \in SlotsOf(p) :
       \E data \in RegisterBodies(Emails, OneName) :
         register_client_check(p, r, data)
  \/ \E p \in TheProcs : \E r \in SlotsOf(p) :
       register_client_save(p, r)
  \/ \E p \in TheProcs : \E r \in SlotsOf(p) :
       \E authorization \in Headers :
         submit_order(p, r, authorization)
  \/ \E p \in TheProcs : \E r \in SlotsOf(p) :
       \E data \in SubmitBodies : submit_order_body(p, r, data)
  \/ \E p \in TheProcs : \E r \in SlotsOf(p) :
       \E authorization \in Headers :
         get_orders(p, r, authorization)
  \/ \E p \in TheProcs : \E r \in SlotsOf(p) :
       \E authorization \in Headers, order_id \in OrderIds :
         get_order(p, r, authorization, order_id)
  \/ \E p \in TheProcs : \E r \in SlotsOf(p) :
       \E authorization \in Headers, order_id \in OrderIds :
         update_order(p, r, authorization, order_id)
  \/ \E p \in TheProcs : \E r \in SlotsOf(p) :
       \E data \in UpdateBodies : update_order_body(p, r, data)
  \/ \E p \in TheProcs : \E r \in SlotsOf(p) :
       \E authorization \in Headers, order_id \in OrderIds :
         delete_order(p, r, authorization, order_id)

SpecSeq == InitSeq /\ [][NextSeq]_vars

\* The catalog endpoints, which need no registration.
NextBooks ==
  \/ \E p \in TheProcs : \E r \in SlotsOf(p) :
       load_data_middleware(p, r)
  \/ \E p \in TheProcs : \E r \in SlotsOf(p) :
       get_status(p, r)
  \/ \E p \in TheProcs : \E r \in SlotsOf(p) :
       \E type \in TypeInputs, limit \in LimitInputs :
         get_books(p, r, type, limit)
  \/ \E p \in TheProcs : \E r \in SlotsOf(p) :
       \E book_id \in BookIdPaths : get_book(p, r, book_id)

SpecBooks == Init /\ [][NextBooks]_vars

\* ================================================================= claims
\* Slot r of process p returns its response in this step.
Completes(p, r) == slot[p][r].pc # "idle" /\ slot'[p][r].pc = "idle"

Completing == \E p \in TheProcs : \E r \in SlotsOf(p) : Completes(p, r)

FileEmails == {clientsFile[i].clientEmail : i \in 1 .. Len(clientsFile)}
FileTokens == {clientsFile[i].token : i \in 1 .. Len(clientsFile)}
FileIds == {ordersFile[i].id : i \in 1 .. Len(ordersFile)}
FileOrder(i) == ordersFile[CHOOSE k \in 1 .. Len(ordersFile) : ordersFile[k].id = i]

\* C1: in every reachable state, whatever the interleaving of the
\* registrations of several processes (load and save being separate steps),
\* no two records of the persisted client registry have the same clientEmail.
C1_EmailUnique ==
  \A i, j \in 1 .. Len(clientsFile) :
    i # j => clientsFile[i].clientEmail # clientsFile[j].clientEmail

\* A process is about to save a registration of an email that another
\* process has saved since the first one loaded the registry.
C1_Witness ==
  \E p \in TheProcs : \E r \in SlotsOf(p) :
    /\ slot[p][r].pc = "reg_save"
    /\ slot[p][r].data.clientEmail \in FileEmails
    /\ slot[p][r].clients = <<>>

\* C2 as stated: a registration with a non-empty clientEmail that is not in
\* the registry succeeds and adds one client; one with a clientEmail that is
\* in the registry returns 409, whatever the clientName, and leaves the
\* registry unchanged.
C2_AsStated ==
  [][\A p \in TheProcs : \A r \in SlotsOf(p) :
       (Completes(p, r) /\ resp'.op = "register" /\ resp'.body.json) =>
         LET e == resp'.body.clientEmail IN
         /\ (e # "" /\ e \notin FileEmails) =>
              /\ resp'.status = 200
              /\ Len(clientsFile') = Len(clientsFile) + 1
         /\ (e \in FileEmails) =>
              /\ resp'.status = 409
              /\ clientsFile' = clientsFile]_vars

\* C2 amended: with requests handled one at a time, a registration with a
\* non-empty clientEmail that is not in the registry and a non-empty
\* clientName returns 200 with a new accessToken and appends exactly one
\* client, with that token, email and name; records never leave the
\* registry; and a registration with a clientEmail that is in the registry
\* returns 409 when its clientName is non-empty and 400 when it is empty,
\* and leaves the registry unchanged.
C2_RegisterThenConflict ==
  [][/\ \A i \in 1 .. Len(clientsFile) :
          Len(clientsFile') >= i /\ clientsFile'[i] = clientsFile[i]
     /\ \A p \in TheProcs : \A r \in SlotsOf(p) :
          /\ (slot[p][r].pc = "reg_body" /\ slot'[p][r].pc = "reg_save") =>
               /\ slot'[p][r].data.clientEmail \notin FileEmails \cup {""}
               /\ slot'[p][r].data.clientName # ""
          /\ (Completes(p, r) /\ resp'.op = "register" /\ resp'.body.json) =>
               LET e == resp'.body.clientEmail
                   n == resp'.body.clientName
               IN /\ (e # "" /\ n # "" /\ e \notin FileEmails) =>
                       /\ resp'.status = 200
                       /\ resp'.out.accessToken \notin FileTokens
                       /\ clientsFile' = Append(clientsFile,
                            [token |-> resp'.out.accessToken, clientEmail |-> e,
                             clientName |-> n])
                  /\ (e \in FileEmails) =>
                       /\ resp'.status = IF n = "" THEN 400 ELSE 409
                       /\ clientsFile' = clientsFile
                  /\ resp'.status = 200 => (e # "" /\ n # "" /\ e \notin FileEmails)]_vars

\* A registration of a registered email under another name was answered 409.
C2_Witness ==
  /\ resp.op = "register" /\ resp.status = 409
  /\ \E i \in 1 .. Len(clientsFile) :
       /\ clientsFile[i].clientEmail = resp.body.clientEmail
       /\ clientsFile[i].clientName # resp.body.clientName

\* C3: each of the five order operations returns 401 when the Authorization
\* header is missing or is not a Bearer header, and when its token is not in
\* the persisted registry; such a request never gets past the check, never
\* returns 400 or 404 and changes neither the order store nor the registry.
OrderOps == {"submit", "list", "get", "update", "delete"}

NotAuthenticated(h) == h = <<>> \/ h[1] # "Bearer" \/ h[2] \notin FileTokens

C3_AuthFirst ==
  [][\A p \in TheProcs : \A r \in SlotsOf(p) :
       /\ (slot[p][r].pc = "handler" /\ slot'[p][r].pc \in {"sub_body", "upd_body"}) =>
            ~NotAuthenticated(slot'[p][r].hdr)
       /\ (Completes(p, r) /\ resp'.op \in OrderOps) =>
            /\ NotAuthenticated(resp'.hdr) =>
                 /\ resp'.status = 401
                 /\ UNCHANGED <<ordersFile, orders, clientsFile>>
            /\ resp'.status = 401 => NotAuthenticated(resp'.hdr)]_vars

\* Every order operation has been refused a Basic header holding a
\* registered token: here the delete of an order that exists.
C3_Witness ==
  /\ resp.op = "delete" /\ resp.status = 401
  /\ resp.hdr # <<>> /\ resp.hdr[1] = "Basic" /\ resp.hdr[2] \in FileTokens
  /\ resp.id \in FileIds

IdsOf(file) == {file[k].id : k \in 1 .. Len(file)}
OrderIn(file, i) == file[CHOOSE k \in 1 .. Len(file) : file[k].id = i]

\* This step returns the response of an update or a delete of order i.
UpdateOrDeleteOf(i) == Completing /\ resp'.op \in {"update", "delete"} /\ resp'.id = i

\* C4: once submitOrder has returned orderId i, and as long as no update or
\* delete is applied to i, the persisted order i keeps the submitted bookId
\* and customerName, getOrder(i) by a registered client returns it and
\* listOrders contains it.
C4_RoundTrip ==
  [][/\ (Completing /\ resp'.op = "submit" /\ resp'.status = 201) =>
          /\ resp'.id \in IdsOf(ordersFile')
          /\ OrderIn(ordersFile', resp'.id).bookId = resp'.body.bookId
          /\ OrderIn(ordersFile', resp'.id).customerName = resp'.body.customerName
     /\ \A i \in FileIds :
          ~UpdateOrDeleteOf(i) =>
            i \in IdsOf(ordersFile') /\ OrderIn(ordersFile', i) = FileOrder(i)
     /\ (Completing /\ resp'.op = "get" /\ ~NotAuthenticated(resp'.hdr)
           /\ resp'.id \in FileIds) =>
          resp'.status = 200 /\ resp'.out = FileOrder(resp'.id)
     /\ (Completing /\ resp'.op = "list" /\ ~NotAuthenticated(resp'.hdr)) =>
          /\ resp'.status = 200
          /\ \A i \in FileIds :
               \E k \in 1 .. Len(resp'.out) : resp'.out[k] = FileOrder(i)]_vars

\* C5: submitOrder never generates the id of a stored order: a successful
\* submitOrder adds one order and leaves every stored order as it was.
C5_FreshOrderId ==
  [][(Completing /\ resp'.op = "submit" /\ resp'.status = 201) =>
       /\ resp'.id \notin FileIds
       /\ Len(ordersFile') = Len(ordersFile) + 1
       /\ \A k \in 1 .. Len(ordersFile) : ordersFile'[k] = ordersFile[k]]_vars

\* C6: deleteOrder(i) by a registered client on a stored order returns 204
\* and removes i from the orders dict and from the file; an order that is
\* not stored stays so until a submitOrder succeeds; deleteOrder(i) on an
\* order that is not stored returns 404 and leaves the store unchanged.
C6_DeleteTwice ==
  [][/\ (Completing /\ resp'.op = "delete" /\ ~NotAuthenticated(resp'.hdr)) =>
          IF resp'.id \in FileIds
            THEN /\ resp'.status = 204
                 /\ resp'.id \notin IdsOf(ordersFile')
                 /\ resp'.id \notin IdsOf(orders'[resp'.proc])
                 /\ \A i \in FileIds \ {resp'.id} :
                      i \in IdsOf(ordersFile') /\ OrderIn(ordersFile', i) = FileOrder(i)
            ELSE /\ resp'.status = 404
                 /\ UNCHANGED <<ordersFile, orders>>
     /\ \A i \in OrderIds :
          (i \notin FileIds /\ ~(Completing /\ resp'.op = "submit")) =>
            /\ i \notin IdsOf(ordersFile')
            /\ \A p \in TheProcs : i \notin IdsOf(orders'[p])]_vars

\* A delete was answered 404 for an order that an update handler, still
\* waiting for its body, had found in the store: the order was deleted
\* before that answer.
C6_Witness ==
  /\ resp.op = "delete" /\ resp.status = 404
  /\ resp.id \notin FileIds
  /\ \E r \in SlotsOf(1) :
       slot[1][r].pc = "upd_body" /\ slot[1][r].ref.id = resp.id

\* C7: updateOrder by a registered client on a stored order with a body
\* whose customerName is missing or empty returns 200 with the order it
\* looked up, and the orders dict and the file stay as they are.
C7_UpdateWithoutName ==
  [][\A p \in TheProcs : \A r \in SlotsOf(p) :
       (slot[p][r].pc = "upd_body" /\ Completes(p, r)
          /\ resp'.body.json /\ resp'.body.customerName = "") =>
         /\ resp'.status = 200
         /\ resp'.out.id = slot[p][r].ref.id
         /\ (slot[p][r].ref.att => resp'.out = FileOrder(slot[p][r].ref.id))
         /\ UNCHANGED <<ordersFile, orders>>]_vars

\* An update without customerName was answered with an order whose name is
\* still the one stored.
C7_Witness ==
  /\ resp.op = "update" /\ resp.status = 200
  /\ resp.body.json /\ resp.body.customerName = ""
  /\ resp.id \in FileIds
  /\ FileOrder(resp.id).customerName # ""
  /\ resp.out = FileOrder(resp.id)

\* C8: when updateOrder with a non-empty customerName returns 200 for an
\* order that is still stored, the file holds that order with the new
\* customerName, whatever requests the process handled while the handler
\* waited for its body.
C8_UpdatePersisted ==
  [][(Completing /\ resp'.op = "update" /\ resp'.status = 200
        /\ resp'.body.customerName # "" /\ resp'.id \in FileIds) =>
       /\ resp'.id \in IdsOf(ordersFile')
       /\ OrderIn(ordersFile', resp'.id).customerName = resp'.body.customerName]_vars

CatalogIds == {Catalog[k].id : k \in 1 .. Len(Catalog)}
AvailableIds == {Catalog[k].id : k \in {j \in 1 .. Len(Catalog) : Catalog[j].available}}

\* C9 as stated: submitOrder by a registered client with a bookId that is
\* not in the catalog, or whose book is not available, returns 404 and
\* leaves the order store unchanged.
C9_AsStated ==
  [][\A p \in TheProcs : \A r \in SlotsOf(p) :
       (slot[p][r].pc = "sub_body" /\ Completes(p, r)
          /\ resp'.body.json /\ resp'.body.bookId # 0
          /\ resp'.body.bookId \notin AvailableIds) =>
         /\ resp'.status = 404
         /\ UNCHANGED <<ordersFile, orders>>]_vars

\* C9 amended: submitOrder by a registered client with a non-empty
\* customerName and a bookId that is given (truthy) returns 404 "Book not
\* found." when no book of the catalog has that id and 404 "not in stock"
\* when the book has available = false; a submitOrder that does not return
\* 201 leaves the order store unchanged, and one that returns 201 names an
\* available book of the catalog.
C9_BookMustBeAvailable ==
  [][\A p \in TheProcs : \A r \in SlotsOf(p) :
       (slot[p][r].pc = "sub_body" /\ Completes(p, r)) =>
         /\ (resp'.body.json /\ resp'.body.bookId # 0 /\ resp'.body.customerName # "") =>
              /\ resp'.body.bookId \notin CatalogIds =>
                   resp'.status = 404 /\ resp'.out = "Book not found."
              /\ resp'.body.bookId \in CatalogIds \ AvailableIds =>
                   /\ resp'.status = 404
                   /\ resp'.out = "This Book is not in stock.Try ordering later."
         /\ resp'.status # 201 => UNCHANGED <<ordersFile, orders>>
         /\ resp'.status = 201 =>
              /\ resp'.body.bookId \in AvailableIds
              /\ resp'.id \in IdsOf(ordersFile')
              /\ OrderIn(ordersFile', resp'.id).bookId = resp'.body.bookId]_vars

\* An order for the book that is not available was refused while an order
\* is stored.
C9_Witness ==
  /\ resp.op = "submit" /\ resp.status = 404
  /\ resp.body.bookId \in CatalogIds \ AvailableIds
  /\ ordersFile # <<>>

\* C10: whenever a request has completed the file holds the orders dict of
\* the process, and a successful submit, update with a customerName, or
\* delete leaves in the file the orders it held before with that one change.
C10_Snapshot ==
  [][Completing =>
       /\ ordersFile' = orders'[resp'.proc]
       /\ (resp'.op = "submit" /\ resp'.status = 201) =>
            ordersFile' = DictSet(ordersFile, "id",
                            [id |-> resp'.id, bookId |-> resp'.body.bookId,
                             customerName |-> resp'.body.customerName])
       /\ (resp'.op = "delete" /\ resp'.status = 204) =>
            ordersFile' = SelectSeq(ordersFile, LAMBDA o : o.id # resp'.id)
       /\ (resp'.op = "update" /\ resp'.status = 200 /\ resp'.body.customerName # "") =>
            /\ resp'.id \in FileIds
            /\ ordersFile' = [k \in 1 .. Len(ordersFile) |->
                 IF ordersFile[k].id = resp'.id
                   THEN [ordersFile[k] EXCEPT !.customerName = resp'.body.customerName]
                   ELSE ordersFile[k]]]_vars

\* C11: registered clients are never changed or removed: every record of
\* the persisted registry is still in it, with the same token, clientEmail
\* and clientName, after any step of any process sharing the registry.
C11_ClientsKept ==
  [][\A i \in 1 .. Len(clientsFile) :
       \E k \in 1 .. Len(clientsFile') : clientsFile'[k] = clientsFile[i]]_vars

\* C13: a registration that has passed the duplicate check returns 200 with
\* a token never returned before and writes the registry it loaded plus its
\* own record; when another process has registered the same clientEmail
\* since that load, the file afterwards holds the record written last and
\* no other record of that clientEmail, so not the token returned first.
C13_LastWriteWins ==
  [][\A p \in TheProcs : \A r \in SlotsOf(p) :
       (slot[p][r].pc = "reg_save" /\ Completes(p, r)) =>
         LET s == slot[p][r]
             e == s.data.clientEmail
             t == resp'.out.accessToken
         IN /\ resp'.op = "register" /\ resp'.status = 200
            /\ t \notin 1 .. issued
            /\ t \notin FileTokens
            /\ clientsFile' = Append(s.clients,
                 [token |-> t, clientEmail |-> e, clientName |-> s.data.clientName])
            /\ e \in FileEmails =>
                 /\ \A i \in 1 .. Len(clientsFile) :
                      clientsFile[i].clientEmail = e =>
                        \A k \in 1 .. Len(clientsFile') :
                          clientsFile'[k].token # clientsFile[i].token
                 /\ \A k \in 1 .. Len(clientsFile') :
                      clientsFile'[k].clientEmail = e => clientsFile'[k].token = t]_vars

\* A registration of one process has returned its token, and another
\* process, which loaded the registry before that token was saved, is about
\* to save a registration of the same clientEmail.
C13_Witness ==
  \E p \in TheProcs : \E q \in TheProcs \ {p} : \E r \in SlotsOf(q) :
    /\ resp.op = "register" /\ resp.status = 200 /\ resp.proc = p
    /\ resp.out.accessToken \in FileTokens
    /\ slot[q][r].pc = "reg_save"
    /\ slot[q][r].data.clientEmail = resp.body.clientEmail
    /\ ~DictHas(slot[q][r].clients, "token", resp.out.accessToken)

\* The books the claim describes: those of the catalog, in catalog order,
\* of the given type, the first `limit` of them, with the four basic fields.
C12_Expected(type, limit) ==
  LET ofType == IF type = <<>> THEN Catalog
                ELSE SelectSeq(Catalog, LAMBDA b : b.type = type[1])
      n == IF limit = <<>> \/ limit[1] > Len(ofType) THEN Len(ofType) ELSE limit[1]
  IN [i \in 1 .. n |->
        [id |-> ofType[i].id, name |-> ofType[i].name, type |-> ofType[i].type,
         available |-> ofType[i].available]]

\* C12: listBooks returns 400 when type is given and is neither fiction nor
\* non-fiction, 400 when limit is given and is outside 1..20, and otherwise
\* 200 with the books of the catalog of that type, the first limit of them,
\* each with exactly the fields id, name, type and available; it changes
\* neither the order store nor the client registry.
C12_ListBooks ==
  [][(Completing /\ resp'.op = "books") =>
       LET type == resp'.body.type
           limit == resp'.body.limit
       IN /\ IF type # <<>> /\ type[1] \notin {"fiction", "non-fiction"}
               THEN resp'.status = 400
             ELSE IF limit # <<>> /\ limit[1] \notin 1 .. 20
               THEN resp'.status = 400
             ELSE resp'.status = 200 /\ resp'.out = C12_Expected(type, limit)
          /\ UNCHANGED <<clientsFile, ordersFile, api_clients, orders>>]_vars

\* This step returns the 201 of a submitOrder that generated id i.
SubmitOf(i) == Completing /\ resp'.op = "submit" /\ resp'.status = 201 /\ resp'.id = i

\* This step returns the 204 of a deleteOrder of id i.
DeleteOf(i) == Completing /\ resp'.op = "delete" /\ resp'.status = 204 /\ resp'.id = i

\* C19: with processes sharing the order store, the file reflects every
\* successful mutation: a created order is in the file until a deleteOrder
\* of its id succeeds, whatever the other processes submit or delete
\* meanwhile, and a deleted order comes back only by a submitOrder that
\* generates its id.
C19_MutationsKept ==
  [][\A i \in OrderIds :
       /\ SubmitOf(i) => i \in IdsOf(ordersFile')
       /\ DeleteOf(i) => i \notin IdsOf(ordersFile')
       /\ (i \in FileIds /\ ~DeleteOf(i)) => i \in IdsOf(ordersFile')
       /\ (i \notin FileIds /\ ~SubmitOf(i)) => i \notin IdsOf(ordersFile')]_vars

\* C14: an order id enters the order store only by a submitOrder that
\* returns it, stays in it across updateOrder, leaves it only by a
\* deleteOrder of it, and once deleted is not in the store again: the store
\* right after the 204 of its deleteOrder, and after the step that follows,
\* does not hold it.
C14_Lifecycle ==
  [][\A i \in OrderIds :
       /\ (i \notin FileIds /\ i \in IdsOf(ordersFile')) => SubmitOf(i)
       /\ (i \in FileIds /\ i \notin IdsOf(ordersFile')) => DeleteOf(i)
       /\ (i \in FileIds /\ Completing /\ resp'.op = "update") => i \in IdsOf(ordersFile')
       /\ (resp.op = "delete" /\ resp.status = 204 /\ resp.id = i) =>
            i \notin FileIds /\ i \notin IdsOf(ordersFile')]_vars

\* C15: an updateOrder leaves in the store every order it found there,
\* with the same id and bookId, and with the same customerName unless it is
\* the addressed order; and a stored order that stays stored changes in no
\* step other than the return of an updateOrder addressed to it.
C15_UpdateFrame ==
  [][/\ (Completing /\ resp'.op = "update") =>
          \A i \in FileIds :
            /\ i \in IdsOf(ordersFile')
            /\ OrderIn(ordersFile', i).bookId = FileOrder(i).bookId
            /\ i # resp'.id => OrderIn(ordersFile', i) = FileOrder(i)
     /\ \A i \in FileIds \cap IdsOf(ordersFile') :
          OrderIn(ordersFile', i) # FileOrder(i) =>
            Completing /\ resp'.op = "update" /\ resp'.id = i]_vars

\* C16: starting from an empty order store, every order in the file and in
\* the orders dict of every process has the bookId of a book of the catalog
\* whose available flag is true.
C16_OrdersNameBooks ==
  /\ \A k \in 1 .. Len(ordersFile) : ordersFile[k].bookId \in AvailableIds
  /\ \A p \in TheProcs : \A k \in 1 .. Len(orders[p]) :
       orders[p][k].bookId \in AvailableIds

\* Two orders are stored and an order for a bookId that is not in the
\* catalog has just been refused.
C16_Witness ==
  /\ Len(ordersFile) = 2
  /\ resp.op = "submit" /\ resp.status = 404
  /\ resp.body.bookId \notin CatalogIds

NoHdr(s) == [k \in DOMAIN s \ {"hdr"} |-> s[k]]

\* The next state is the given one, but for the header of the request.
SameButHeader(p, r, sl, rs, o, f, n) ==
  /\ NoHdr(slot'[p][r]) = sl
  /\ NoHdr(resp') = rs
  /\ orders' = o
  /\ ordersFile' = f
  /\ issued' = n

\* The step of an order handler from its start to its first await or to its
\* return, for the operation op on order i with header h.
OrderRequest(p, r, op, i, h) ==
  \/ op = "submit" /\ submit_order(p, r, h)
  \/ op = "list" /\ get_orders(p, r, h)
  \/ op = "get" /\ get_order(p, r, h, i)
  \/ op = "update" /\ update_order(p, r, h, i)
  \/ op = "delete" /\ delete_order(p, r, h, i)

\* C18: whatever an order handler does up to its first await with the token
\* of one registered client (the status, the response, the order looked up,
\* the order store) it does with the token of any other registered client
\* in the same state; and what submitOrder and updateOrder do after their
\* await is determined by the body and the order store alone: the status,
\* and the stored orders up to the generated id.
C18_NoOwnership ==
  [][\A p \in TheProcs : \A r \in SlotsOf(p) :
       /\ (/\ slot[p][r].pc = "handler"
           /\ \/ slot'[p][r].pc \in {"sub_body", "upd_body"}
              \/ Completes(p, r) /\ resp'.op \in OrderOps /\ resp'.status # 401) =>
            \E op \in {IF slot'[p][r].pc = "sub_body" THEN "submit"
                        ELSE IF slot'[p][r].pc = "upd_body" THEN "update"
                        ELSE resp'.op},
               i \in {IF slot'[p][r].pc = "sub_body" THEN 0
                       ELSE IF slot'[p][r].pc = "upd_body" THEN slot'[p][r].ref.id
                       ELSE resp'.id},
               sl \in {NoHdr(slot'[p][r])}, rs \in {NoHdr(resp')},
               o \in {orders'}, f \in {ordersFile'}, n \in {issued'} :
              \A t \in FileTokens :
                ENABLED (/\ OrderRequest(p, r, op, i, <<"Bearer", t>>)
                         /\ SameButHeader(p, r, sl, rs, o, f, n))
       /\ (slot[p][r].pc = "sub_body" /\ Completes(p, r)) =>
            LET b == resp'.body
                ok == b.json /\ b.bookId \in AvailableIds /\ b.customerName # ""
            IN /\ resp'.status = 201 <=> ok
               /\ ordersFile' =
                    IF ok THEN DictSet(ordersFile, "id",
                                 [id |-> resp'.id, bookId |-> b.bookId,
                                  customerName |-> b.customerName])
                    ELSE ordersFile
       /\ (slot[p][r].pc = "upd_body" /\ Completes(p, r)) =>
            LET b == resp'.body
                named == b.json /\ b.customerName # ""
            IN /\ resp'.status = 200 <=> b.json
               /\ ordersFile' =
                    IF named
                      THEN [k \in 1 .. Len(ordersFile) |->
                              IF ordersFile[k].id = slot[p][r].ref.id
                                THEN [ordersFile[k] EXCEPT !.customerName = b.customerName]
                                ELSE ordersFile[k]]
                      ELSE ordersFile]_vars

\* Token 1 was registered, then the order was created (the second uuid4
\* value), then token 3 was registered: the order, created with token 1,
\* has been deleted with token 3.
C18_Witness ==
  /\ FileTokens = {1, 3}
  /\ resp.op = "delete" /\ resp.status = 204
  /\ resp.hdr = <<"Bearer", 3>>
====
